---- MODULE Spec2Model ----
(***************************************************************************)
(* A model of the OpenAI translation adapter (OpenAIContentGenerator), of  *)
(* the adapter factory (AdapterFactory) and of the simple factory of the   *)
(* gemini-cli core package.                                                *)
(*                                                                         *)
(* Encoding of the JavaScript values:                                      *)
(*   - a string is the sequence of its characters (<<>> is '');            *)
(*   - a value that may be null/undefined is Null (<<>>) or Some(v)        *)
(*     (<<v>>);                                                            *)
(*   - a string is truthy exactly when it is non-empty.                    *)
(***************************************************************************)
EXTENDS Integers, Sequences, FiniteSets, TLC

VARIABLES
    adapter,      \* the OpenAIContentGenerator instance (its bound fields), or NoAdapter
    op,           \* the operation of the current invocation
    input,        \* its argument (a request or a configuration)
    vendor,       \* what the vendor SDK will answer to this invocation
    vendorCalls,  \* the vendor calls made so far by this invocation, in order
    pc,           \* the position of the invocation
    result,       \* what the invocation returned or threw
    stream,       \* the async generator returned by generateContentStream
    prev          \* summary of the previous countTokens invocation

vars == <<adapter, op, input, vendor, vendorCalls, pc, result, stream, prev>>

----------------------------------------------------------------------------
(* Bounds of the model *)

\* the most parts the contents of a request hold in total
MaxParts == 2
\* the most content items of a request
MaxContents == 2
\* the most choices of a native chat completion
MaxChoices == 2
\* the most data entries of a native embedding response
MaxData == 2
\* the most chunks of a native stream
MaxChunks == 3

----------------------------------------------------------------------------
(* JavaScript values *)

Null == <<>>
Some(v) == <<v>>
IsNull(o) == o = <<>>
Val(o) == o[1]

Truthy(s) == Len(s) > 0

SeqsUpTo(S, n) == UNION {[1..k -> S] : k \in 0..n}

\* A Part object: {text: t} or a part that carries no text (inline data).
TextPart(t) == [kind |-> "text", text |-> t]
DataPart == [kind |-> "data", text |-> <<>>]
\* A bare string used as a part (PartUnion).
StringPart(t) == [kind |-> "string", text |-> t]

PartObjects == {TextPart(<<"a">>), TextPart(<<"b">>), DataPart}

Roles == {Null, Some("user"), Some("model"), Some("function")}

\* ContentUnion = Content | PartUnion[] | PartUnion
ContentObj(r, ps) == [kind |-> "content", role |-> r, parts |-> ps, text |-> <<>>]
StringItem(t) == [kind |-> "string", role |-> Null, parts |-> <<>>, text |-> t]
PartItem(p) == [kind |-> "part", role |-> Null, parts |-> <<p>>, text |-> <<>>]
PartArray(ps) == [kind |-> "parts", role |-> Null, parts |-> ps, text |-> <<>>]

\* The content items over the parts P and the roles R with at most n parts;
\* a bare string and a bare Part object (bare) hold no parts array.
ItemsOf(P, R, bare, n) ==
    {ContentObj(r, ps) : r \in R, ps \in UNION {[1..m -> P] : m \in 0..n}} \cup bare

RECURSIVE TotalParts(_)
TotalParts(items) ==
    IF items = <<>> THEN 0
    ELSE (IF Head(items).kind = "content" THEN Len(Head(items).parts) ELSE 0)
         + TotalParts(Tail(items))

\* ContentListUnion = Content | Content[] | PartUnion | PartUnion[]
SingleContents(item) == [kind |-> "single", items |-> <<item>>]
ArrayContents(items) == [kind |-> "array", items |-> items]

\* The arrays of k content items with at most MaxParts parts in total.
ItemArrays(P, R, bare, k) ==
    {s \in [1..k -> ItemsOf(P, R, bare, MaxParts)] : TotalParts(s) <= MaxParts}

StringItems == {StringItem(<<>>), StringItem(<<"a">>)}
PartItems == {PartItem(TextPart(<<"a">>))}
BareItems == StringItems \cup PartItems

\* config.systemInstruction: absent, or a ContentUnion
SystemInstructions ==
    {Null, Some(StringItem(<<"a">>)),
     Some(PartArray(<<StringPart(<<"a">>), TextPart(<<"b">>)>>)),
     Some(PartArray(<<DataPart, TextPart(<<>>)>>)),
     Some(ContentObj(Null, <<TextPart(<<"b">>), DataPart, TextPart(<<"a">>)>>)),
     Some(PartItem(TextPart(<<"a">>)))}

GenerateRequest(sys, contents) == [systemInstruction |-> sys, contents |-> contents]

----------------------------------------------------------------------------
(* OpenAIContentGenerator: request conversion *)

RECURSIVE JoinTexts(_)
JoinTexts(ts) == IF ts = <<>> THEN <<>> ELSE Head(ts) \o JoinTexts(Tail(ts))

extractTextFromPart(part) ==
    IF part.kind = "string" THEN part.text
    ELSE IF part.kind = "text" /\ Truthy(part.text) THEN part.text
    ELSE <<>>

\* parts.map(extractTextFromPart).filter(text => text).join('')
MapFilterJoin(parts) ==
    JoinTexts(SelectSeq([i \in 1..Len(parts) |-> extractTextFromPart(parts[i])], Truthy))

extractTextFromContent(content) ==
    IF content.kind = "string" THEN content.text
    ELSE IF content.kind = "parts" THEN MapFilterJoin(content.parts)
    ELSE IF content.kind = "content" THEN MapFilterJoin(content.parts)
    ELSE <<>>

extractRoleFromContent(content) ==
    IF content.kind = "content" /\ ~IsNull(content.role) THEN Val(content.role)
    ELSE "user"

Message(role, content) == [role |-> role, content |-> content]

\* JavaScript truthiness of a ContentUnion value: only '' is falsy.
TruthyItem(item) == item.kind # "string" \/ Truthy(item.text)

SystemMessages(request) ==
    IF ~IsNull(request.systemInstruction) /\ TruthyItem(Val(request.systemInstruction))
       /\ Truthy(extractTextFromContent(Val(request.systemInstruction)))
    THEN <<Message("system", extractTextFromContent(Val(request.systemInstruction)))>>
    ELSE <<>>

\* Mutant of NativeRole: a role other than 'model' is passed through unmapped.
NativeRoleUnmapped(role) == IF role = "model" THEN "assistant" ELSE role

NativeRole(role) == IF role = "model" THEN "assistant" ELSE "user"

MessageOf(content) ==
    Message(NativeRole(extractRoleFromContent(content)), extractTextFromContent(content))

RECURSIVE ContentMessages(_)
ContentMessages(items) ==
    IF items = <<>> THEN <<>>
    ELSE (IF Truthy(extractTextFromContent(Head(items)))
          THEN <<MessageOf(Head(items))>> ELSE <<>>)
         \o ContentMessages(Tail(items))

convertToOpenAIMessages(request) ==
    SystemMessages(request)
        \o (IF request.contents.kind = "array"
            THEN ContentMessages(request.contents.items)
            ELSE IF TruthyItem(request.contents.items[1])
                    /\ Truthy(extractTextFromContent(request.contents.items[1]))
            THEN <<MessageOf(request.contents.items[1])>>
            ELSE <<>>)

----------------------------------------------------------------------------
(* The vendor's (OpenAI SDK) values.  Strings that the adapter only compares *)
(* (finish reasons, model names, keys) are TLA+ strings; '' is "".           *)

NativeFinishReasons ==
    {Null, Some("stop"), Some("length"), Some("content_filter"),
     Some("tool_calls"), Some("function_call"), Some(""), Some("STOP")}

NativeContents == {Null, Some(<<>>), Some(<<"a">>)}

NativeChoice(content, reason) ==
    [message |-> [content |-> content], finish_reason |-> reason]

NativeChoices ==
    {NativeChoice(c, r) : c \in NativeContents, r \in NativeFinishReasons}

NativeUsage(p, c, t) ==
    [prompt_tokens |-> p, completion_tokens |-> c, total_tokens |-> t]

NativeUsages ==
    {Null, Some(NativeUsage(0, 0, 0)), Some(NativeUsage(3, 5, 8)), Some(NativeUsage(1, 2, 4))}

ChatCompletion(choices, usage) ==
    [kind |-> "response", choices |-> choices, usage |-> usage, thrown |-> Null]

\* What a vendor call can throw: the SDK's structured APIError (a subclass of
\* Error, with a status), a plain Error, or a value that is no Error at all.
APIError(message, status) == [kind |-> "APIError", message |-> message, status |-> Some(status)]
PlainError(message) == [kind |-> "Error", message |-> message, status |-> Null]
ThrownValue(text) == [kind |-> "value", message |-> text, status |-> Null]

ThrownValues ==
    {APIError(<<"rate limit">>, "429"), APIError(<<"server error">>, "500"),
     PlainError(<<"socket hang up">>), ThrownValue(<<"boom">>)}

VendorThrows(e) == [kind |-> "throw", choices |-> <<>>, usage |-> Null, thrown |-> Some(e)]

ChatOutcomes ==
    {ChatCompletion(cs, u) : cs \in SeqsUpTo(NativeChoices, MaxChoices), u \in NativeUsages}
        \cup {VendorThrows(e) : e \in ThrownValues}

IsError(e) == e.kind \in {"APIError", "Error"}

\* error instanceof Error ? error.message : String(error)
MessageOrString(e) == e.message

\* reading a property of undefined
TypeErrorUndefined(prop) ==
    PlainError(<<"Cannot read properties of undefined (reading '", prop, "')">>)

----------------------------------------------------------------------------
(* OpenAIContentGenerator: response conversion and error handling *)

\* Mutant of convertFinishReason: the 'content_filter' case is missing.
convertFinishReasonNoSafety(reason) ==
    IF IsNull(reason) \/ Val(reason) = "" THEN Null
    ELSE IF Val(reason) = "stop" THEN Some("STOP")
    ELSE IF Val(reason) = "length" THEN Some("MAX_TOKENS")
    ELSE Some("OTHER")

convertFinishReason(reason) ==
    IF IsNull(reason) \/ Val(reason) = "" THEN Null
    ELSE IF Val(reason) = "stop" THEN Some("STOP")
    ELSE IF Val(reason) = "length" THEN Some("MAX_TOKENS")
    ELSE IF Val(reason) = "content_filter" THEN Some("SAFETY")
    ELSE Some("OTHER")

\* x || '' on an optional string
OrEmpty(content) == IF IsNull(content) THEN <<>> ELSE Val(content)

Candidate(text, reason) ==
    [content |-> [parts |-> <<[text |-> text]>>, role |-> "model"],
     finishReason |-> reason,
     index |-> 0]

UsageMetadata(usage) ==
    [promptTokenCount |-> usage.prompt_tokens,
     candidatesTokenCount |-> usage.completion_tokens,
     totalTokenCount |-> usage.total_tokens]

GenerateContentResponse(candidates, usage) ==
    [kind |-> "response", candidates |-> candidates, usageMetadata |-> usage, error |-> Null]

Raised(e) == [kind |-> "error", candidates |-> <<>>, usageMetadata |-> Null, error |-> Some(e)]

\* Mutant of convertToGeminiResponse: usageMetadata is zero-filled when the
\* native response carries no usage.
convertToGeminiResponseZeroFill(response) ==
    IF Len(response.choices) = 0 THEN Raised(TypeErrorUndefined("message"))
    ELSE GenerateContentResponse(
            <<Candidate(OrEmpty(response.choices[1].message.content),
                        convertFinishReason(response.choices[1].finish_reason))>>,
            IF IsNull(response.usage) THEN Some(UsageMetadata(NativeUsage(0, 0, 0)))
            ELSE Some(UsageMetadata(Val(response.usage))))

\* response.choices[0] is undefined for an empty choices array, and reading
\* choice.message then throws a TypeError
convertToGeminiResponse(response) ==
    IF Len(response.choices) = 0 THEN Raised(TypeErrorUndefined("message"))
    ELSE GenerateContentResponse(
            <<Candidate(OrEmpty(response.choices[1].message.content),
                        convertFinishReason(response.choices[1].finish_reason))>>,
            IF IsNull(response.usage) THEN Null
            ELSE Some(UsageMetadata(Val(response.usage))))

\* The catch block of generateContent (the message prefix is a Chinese literal
\* in the source: "OpenAI API call failed: ")
GenerateContentFailure(e) ==
    PlainError(<<"OpenAI API call failed: ">> \o MessageOrString(e))

\* Mutant of GenerateContentStreamFailure: the catch block rethrows what it
\* caught.
GenerateContentStreamFailureRethrown(e) == e

\* The catch block of generateContentStream ("OpenAI streaming API call failed: ")
GenerateContentStreamFailure(e) ==
    PlainError(<<"OpenAI streaming API call failed: ">> \o MessageOrString(e))

handleError(e) ==
    IF e.kind = "APIError"
    THEN PlainError(<<"OpenAI API Error: ">> \o e.message \o <<" (", Val(e.status), ")">>)
    ELSE IF IsError(e) THEN e
    ELSE PlainError(<<"Unknown OpenAI error: ">> \o e.message)

----------------------------------------------------------------------------
(* OpenAIContentGenerator: construction *)

\* constructor(apiKey, model = 'gpt-4', embeddingModel = 'text-embedding-ada-002', baseURL?)
\* A default applies when the argument is undefined (Null), not when it is ''.
OpenAIContentGenerator(apiKey, model, embeddingModel, baseURL) ==
    [apiKey |-> apiKey,
     model |-> IF IsNull(model) THEN "gpt-4" ELSE Val(model),
     embeddingModel |-> IF IsNull(embeddingModel) THEN "text-embedding-ada-002"
                        ELSE Val(embeddingModel),
     baseURL |-> baseURL]

\* simple-factory.ts
createOpenAIContentGenerator(apiKey, model, embeddingModel, baseURL) ==
    OpenAIContentGenerator(apiKey, model, embeddingModel, baseURL)

\* The adapters the operations below are run on.
Adapters ==
    {createOpenAIContentGenerator("sk-x", Null, Null, Null),
     createOpenAIContentGenerator("sk-x", Some("gpt-4o"), Some("text-embedding-3-small"),
                                  Some("https://proxy.example/v1"))}

ChatCall(a, messages, streaming) ==
    [api |-> "chat.completions.create", model |-> a.model, messages |-> messages,
     stream |-> streaming, apiKey |-> a.apiKey, baseURL |-> a.baseURL]

----------------------------------------------------------------------------
(* generateContent *)

\* What the try block evaluates to: the converted response, or what it threw.
GenerateContentTry(request, outcome) ==
    IF outcome.kind = "throw" THEN Raised(Val(outcome.thrown))
    ELSE convertToGeminiResponse(outcome)

generateContent(request, outcome) ==
    IF GenerateContentTry(request, outcome).kind = "error"
    THEN Raised(GenerateContentFailure(Val(GenerateContentTry(request, outcome).error)))
    ELSE GenerateContentTry(request, outcome)

GenerateContent ==
    /\ op = "generateContent"
    /\ pc = "start"
    /\ vendorCalls' = <<ChatCall(Val(adapter), convertToOpenAIMessages(input), FALSE)>>
    /\ result' = Some(generateContent(input, vendor))
    /\ pc' = "done"
    /\ UNCHANGED <<adapter, op, input, vendor, stream, prev>>

\* The invocation whose vendor answer is fixed, over every request.
DefaultChatOutcome ==
    ChatCompletion(<<NativeChoice(Some(<<"a">>), Some("stop"))>>, Some(NativeUsage(3, 5, 8)))

\* The request used when the vendor's answer varies.
DefaultRequest ==
    GenerateRequest(Null, ArrayContents(<<ContentObj(Some("user"), <<TextPart(<<"a">>)>>)>>))

NoStream == [state |-> "none"]

InitConvert ==
    /\ adapter = Some(createOpenAIContentGenerator("sk-x", Null, Null, Null))
    /\ op = "generateContent"
    /\ \E sys \in SystemInstructions :
         \/ \E i \in ItemsOf(PartObjects, Roles, BareItems, MaxParts) :
                input = GenerateRequest(sys, SingleContents(i))
         \/ \E k \in 0..MaxContents : \E s \in ItemArrays(PartObjects, Roles, BareItems, k) :
                input = GenerateRequest(sys, ArrayContents(s))
    /\ vendor = DefaultChatOutcome
    /\ vendorCalls = <<>>
    /\ pc = "start"
    /\ result = Null
    /\ stream = NoStream
    /\ prev = Null

InitGenerate ==
    /\ adapter \in {Some(a) : a \in Adapters}
    /\ op = "generateContent"
    /\ input = DefaultRequest
    /\ vendor \in ChatOutcomes
    /\ vendorCalls = <<>>
    /\ pc = "start"
    /\ result = Null
    /\ stream = NoStream
    /\ prev = Null

NextGenerate == GenerateContent

SpecConvert == InitConvert /\ [][NextGenerate]_vars

SpecGenerate == InitGenerate /\ [][NextGenerate]_vars

----------------------------------------------------------------------------
(* generateContentStream *)

\* A native chunk: choices may be absent, a choice's delta may be absent.
Chunk(choices) == [choices |-> choices]
ChunkChoice(delta, reason) == [delta |-> delta, finish_reason |-> reason]
Delta(content) == Some([content |-> content])
TextChunk(content, reason) == Chunk(Some(<<ChunkChoice(Delta(content), reason)>>))

StreamChunks ==
    {Chunk(Null), Chunk(Some(<<>>)), Chunk(Some(<<ChunkChoice(Null, Some("stop"))>>))}
        \cup {TextChunk(c, r) : c \in {Null, Some(<<>>), Some(<<"a">>), Some(<<"b">>)},
                                r \in {Null, Some("stop")}}

\* The native stream delivers its chunks and then ends, or throws after them.
NativeStream(chunks, thrown) == [kind |-> "stream", chunks |-> chunks, thrown |-> thrown]
\* chat.completions.create itself rejects.
CreateThrows(e) == [kind |-> "throw", chunks |-> <<>>, thrown |-> Some(e)]

StreamThrownValues == {APIError(<<"rate limit">>, "429"), ThrownValue(<<"boom">>)}

StreamOutcomes ==
    {NativeStream(cs, t) : cs \in SeqsUpTo(StreamChunks, MaxChunks),
                           t \in {Null} \cup {Some(e) : e \in StreamThrownValues}}
        \cup {CreateThrows(e) : e \in StreamThrownValues}

\* choice.delta?.content
DeltaContent(choice) == IF IsNull(choice.delta) THEN Null ELSE Val(choice.delta).content

\* Mutant of Yields: the test of the incremental text is missing.
YieldsAnyChoice(chunk) == ~IsNull(chunk.choices) /\ Len(Val(chunk.choices)) > 0

\* chunk.choices && chunk.choices.length > 0 && choice.delta?.content
Yields(chunk) ==
    /\ ~IsNull(chunk.choices)
    /\ Len(Val(chunk.choices)) > 0
    /\ ~IsNull(DeltaContent(Val(chunk.choices)[1]))
    /\ Truthy(Val(DeltaContent(Val(chunk.choices)[1])))

convertStreamChunkToGeminiResponse(chunk) ==
    GenerateContentResponse(
        <<Candidate(OrEmpty(DeltaContent(Val(chunk.choices)[1])),
                    convertFinishReason(Val(chunk.choices)[1].finish_reason))>>,
        Null)

\* The index of the first chunk after `from` that is yielded, 0 if there is none.
RECURSIVE NextYield(_, _)
NextYield(chunks, from) ==
    IF from >= Len(chunks) THEN 0
    ELSE IF Yields(chunks[from + 1]) THEN from + 1
    ELSE NextYield(chunks, from + 1)

\* The async generator: its state, the native chunks pulled so far, the
\* responses yielded so far, what it threw, the native stream iterator
\* ("none": never obtained; "open"; "finished": exhausted or thrown;
\* "returned": closed by return()), the number of next() calls the consumer
\* has made and how the latest call on the generator settled ("value",
\* "done" or "error"; "none" before the first call).
Generator(state, pulled, yielded, error, native, requests, settled) ==
    [state |-> state, pulled |-> pulled, yielded |-> yielded, error |-> error,
     native |-> native, requests |-> requests, settled |-> settled]

\* A generator that has completed: by running to its end, by throwing or by
\* return().
Ended == {"done", "failed", "closed"}

\* the most next() calls a consumer makes on one generator
MaxRequests == MaxChunks + 2

\* generateContentStream returns the generator; its body has not started.
GenerateContentStream ==
    /\ op = "generateContentStream"
    /\ pc = "start"
    /\ stream' = Generator("created", 0, <<>>, Null, "none", 0, "none")
    /\ pc' = "returned"
    /\ UNCHANGED <<adapter, op, input, vendor, vendorCalls, result, prev>>

\* Mutant of RunToYield: the body fetches the chunk after the one it yields
\* before it suspends.
RunToYieldReadAhead(g) ==
    IF NextYield(vendor.chunks, g.pulled) > 0
    THEN Generator("suspended",
                   IF NextYield(vendor.chunks, g.pulled) < Len(vendor.chunks)
                   THEN NextYield(vendor.chunks, g.pulled) + 1
                   ELSE NextYield(vendor.chunks, g.pulled),
                   Append(g.yielded,
                          convertStreamChunkToGeminiResponse(
                              vendor.chunks[NextYield(vendor.chunks, g.pulled)])),
                   Null, "open", g.requests + 1, "value")
    ELSE IF IsNull(vendor.thrown)
    THEN Generator("done", Len(vendor.chunks), g.yielded, Null, "finished",
                   g.requests + 1, "done")
    ELSE Generator("failed", Len(vendor.chunks), g.yielded,
                   Some(GenerateContentStreamFailure(Val(vendor.thrown))), "finished",
                   g.requests + 1, "error")

\* The body from the current position to the next yield, the end of the
\* native stream or its failure.
RunToYield(g) ==
    IF NextYield(vendor.chunks, g.pulled) > 0
    THEN Generator("suspended", NextYield(vendor.chunks, g.pulled),
                   Append(g.yielded,
                          convertStreamChunkToGeminiResponse(
                              vendor.chunks[NextYield(vendor.chunks, g.pulled)])),
                   Null, "open", g.requests + 1, "value")
    ELSE IF IsNull(vendor.thrown)
    THEN Generator("done", Len(vendor.chunks), g.yielded, Null, "finished",
                   g.requests + 1, "done")
    ELSE Generator("failed", Len(vendor.chunks), g.yielded,
                   Some(GenerateContentStreamFailure(Val(vendor.thrown))), "finished",
                   g.requests + 1, "error")

\* The consumer requests the next element.  The first request starts the
\* body, which makes the vendor call; a generator that has completed answers
\* done without running anything.
StreamNext ==
    /\ op = "generateContentStream"
    /\ pc = "returned"
    /\ stream.requests < MaxRequests
    /\ vendorCalls' = IF stream.state = "created"
                      THEN <<ChatCall(Val(adapter), convertToOpenAIMessages(input), TRUE)>>
                      ELSE vendorCalls
    /\ stream' = IF stream.state \in Ended
                 THEN [stream EXCEPT !.requests = @ + 1, !.settled = "done"]
                 ELSE IF stream.state = "created" /\ vendor.kind = "throw"
                 THEN Generator("failed", 0, <<>>,
                                Some(GenerateContentStreamFailure(Val(vendor.thrown))), "none",
                                stream.requests + 1, "error")
                 ELSE RunToYield(stream)
    /\ UNCHANGED <<adapter, op, input, vendor, pc, result, prev>>

\* return() on the generator after a for-await loop has left it suspended.
\* A generator that never started completes without running its body; one
\* suspended at a yield leaves the for-await loop, which closes the native
\* iterator.
ReturnClosesNative(g) == IF g.state = "created" THEN "none" ELSE "returned"

\* The consumer stops iterating: return() on the generator.
StreamReturn ==
    /\ op = "generateContentStream"
    /\ pc = "returned"
    /\ stream.state \in {"created", "suspended"}
    /\ stream' = Generator("closed", stream.pulled, stream.yielded, Null,
                           ReturnClosesNative(stream), stream.requests, "done")
    /\ UNCHANGED <<adapter, op, input, vendor, vendorCalls, pc, result, prev>>

\* What the vendor answers to a call made after a failed stream: a stream
\* that now succeeds, one that fails again mid-way, or a rejected call.
RetryOutcomes ==
    {NativeStream(<<TextChunk(Some(<<"b">>), Null), TextChunk(Some(<<"a">>), Some("stop"))>>,
                  Null),
     NativeStream(<<TextChunk(Some(<<"b">>), Null)>>, Some(ThrownValue(<<"boom">>))),
     CreateThrows(APIError(<<"rate limit">>, "429"))}

\* The caller, whose stream has just failed, calls generateContentStream
\* afresh with the same request; what the failed generator had delivered
\* and thrown is kept for comparison.
GenerateContentStreamAgain ==
    /\ op = "generateContentStream"
    /\ pc = "returned"
    /\ stream.state = "failed"
    /\ stream.settled = "error"
    /\ IsNull(prev)
    /\ prev' = Some([yielded |-> stream.yielded, error |-> Val(stream.error)])
    /\ vendor' \in RetryOutcomes
    /\ vendorCalls' = <<>>
    /\ stream' = NoStream
    /\ pc' = "start"
    /\ UNCHANGED <<adapter, op, input, result>>

----------------------------------------------------------------------------
(* countTokens *)

\* Array.isArray(contents) ? contents : [contents]
AsArray(contents) == contents.items

\* typeof content === 'object' && 'parts' in content && content.parts
HasParts(content) == content.kind = "content"

\* Mutant of HasText: the truthiness test of part.text is missing.
HasTextField(part) == part.kind = "text"

\* typeof part === 'object' && part && 'text' in part && part.text
HasText(part) == part.kind = "text" /\ Truthy(part.text)

RECURSIVE AppendPartTexts(_, _)
AppendPartTexts(text, parts) ==
    IF parts = <<>> THEN text
    ELSE AppendPartTexts(IF HasText(Head(parts)) THEN text \o Head(parts).text \o <<" ">>
                         ELSE text,
                         Tail(parts))

RECURSIVE AppendContentTexts(_, _)
AppendContentTexts(text, contents) ==
    IF contents = <<>> THEN text
    ELSE AppendContentTexts(IF HasParts(Head(contents))
                            THEN AppendPartTexts(text, Head(contents).parts)
                            ELSE text,
                            Tail(contents))

extractTextFromRequest(request) == AppendContentTexts(<<>>, AsArray(request.contents))

\* Math.ceil(n / 4) for n >= 0
CeilDiv4(n) == (n + 3) \div 4

countTokens(request) == [totalTokens |-> CeilDiv4(Len(extractTextFromRequest(request)))]

CountRequest(contents) == [contents |-> contents]

CountParts ==
    {TextPart(<<>>), TextPart(<<"a">>), TextPart(<<"a", "a">>), TextPart(<<"a", "a", "a">>),
     DataPart}
CountRoles == {Some("user")}
CountBareItems == {StringItem(<<"a", "a">>)}

\* The measures of a request that the properties of countTokens speak of,
\* stated without the adapter's code.
RECURSIVE SumOver(_, _, _)
SumOver(f(_), seq, n) == IF n = 0 THEN 0 ELSE SumOver(f, seq, n - 1) + f(seq[n])

PartChars(part) == IF part.kind = "text" THEN Len(part.text) ELSE 0
PartNonEmpty(part) == IF part.kind = "text" /\ part.text # <<>> THEN 1 ELSE 0
ItemChars(item) ==
    IF item.kind = "content" THEN SumOver(PartChars, item.parts, Len(item.parts)) ELSE 0
ItemNonEmptyParts(item) ==
    IF item.kind = "content" THEN SumOver(PartNonEmpty, item.parts, Len(item.parts)) ELSE 0
TotalChars(request) ==
    SumOver(ItemChars, request.contents.items, Len(request.contents.items))
NonEmptyParts(request) ==
    SumOver(ItemNonEmptyParts, request.contents.items, Len(request.contents.items))

\* What is remembered of a countTokens invocation once it has returned.
CountSummary(request, response) ==
    [chars |-> TotalChars(request), parts |-> NonEmptyParts(request),
     totalTokens |-> response.totalTokens]

\* countTokens makes no vendor call at all.
CountTokens ==
    /\ op = "countTokens"
    /\ pc = "idle"
    /\ \E contents \in {SingleContents(i) : i \in ItemsOf(CountParts, CountRoles, CountBareItems, MaxParts)}
                        \cup UNION {{ArrayContents(s) :
                                        s \in ItemArrays(CountParts, CountRoles, CountBareItems, k)} :
                                    k \in 0..MaxContents} :
            /\ input' = CountRequest(contents)
            /\ result' = Some(countTokens(CountRequest(contents)))
    /\ pc' = "done"
    /\ UNCHANGED <<adapter, op, vendor, vendorCalls, stream, prev>>

\* The caller takes the result; the adapter keeps nothing of the invocation.
CountTokensReturn ==
    /\ op = "countTokens"
    /\ pc = "done"
    /\ prev' = Some(CountSummary(input, Val(result)))
    /\ input' = Null
    /\ result' = Null
    /\ pc' = "idle"
    /\ UNCHANGED <<adapter, op, vendor, vendorCalls, stream>>

----------------------------------------------------------------------------
(* embedContent *)

RECURSIVE FirstPartText(_)
FirstPartText(parts) ==
    IF parts = <<>> THEN Null
    ELSE IF HasText(Head(parts)) THEN Some(Head(parts).text)
    ELSE FirstPartText(Tail(parts))

\* Mutant of FirstContentText: the scan stops at the first content.
FirstContentTextOnly(contents) ==
    IF contents = <<>> THEN Null
    ELSE IF HasParts(Head(contents)) THEN FirstPartText(Head(contents).parts)
    ELSE Null

RECURSIVE FirstContentText(_)
FirstContentText(contents) ==
    IF contents = <<>> THEN Null
    ELSE IF HasParts(Head(contents)) /\ ~IsNull(FirstPartText(Head(contents).parts))
    THEN FirstPartText(Head(contents).parts)
    ELSE FirstContentText(Tail(contents))

extractTextFromEmbedRequest(request) == OrEmpty(FirstContentText(AsArray(request.contents)))

EmbeddingCall(a, text) ==
    [api |-> "embeddings.create", model |-> a.embeddingModel, input |-> text,
     apiKey |-> a.apiKey, baseURL |-> a.baseURL]

Vectors == {<<>>, <<1, 2>>, <<3>>}

CreateEmbeddingResponse(data) == [kind |-> "response", data |-> data, thrown |-> Null]
EmbeddingThrows(e) == [kind |-> "throw", data |-> <<>>, thrown |-> Some(e)]

EmbeddingOutcomes ==
    {CreateEmbeddingResponse(d) : d \in SeqsUpTo({[embedding |-> v] : v \in Vectors}, MaxData)}
        \cup {EmbeddingThrows(e) : e \in ThrownValues}

EmbedContentResponse(values) ==
    [kind |-> "response", embeddings |-> <<[values |-> values]>>, error |-> Null]
EmbedRaised(e) == [kind |-> "error", embeddings |-> <<>>, error |-> Some(e)]

\* response.data[0]?.embedding || []
embedContent(request, outcome) ==
    IF outcome.kind = "throw" THEN EmbedRaised(handleError(Val(outcome.thrown)))
    ELSE EmbedContentResponse(IF Len(outcome.data) = 0 THEN <<>>
                              ELSE outcome.data[1].embedding)

EmbedContent ==
    /\ op = "embedContent"
    /\ pc = "start"
    /\ vendorCalls' = <<EmbeddingCall(Val(adapter), extractTextFromEmbedRequest(input))>>
    /\ result' = Some(embedContent(input, vendor))
    /\ pc' = "done"
    /\ UNCHANGED <<adapter, op, input, vendor, stream, prev>>

EmbedRequest(contents) == [contents |-> contents]

EmbedParts == {TextPart(<<>>), TextPart(<<"x">>), TextPart(<<"y">>), DataPart}
EmbedRoles == {Some("user")}
EmbedBareItems == {StringItem(<<"y">>)}

DefaultEmbedRequest ==
    EmbedRequest(ArrayContents(<<ContentObj(Some("user"), <<TextPart(<<"x">>)>>)>>))
DefaultEmbeddingOutcome == CreateEmbeddingResponse(<<[embedding |-> <<1, 2>>]>>)

----------------------------------------------------------------------------
(* AdapterFactory *)

\* enum LLMProvider, in declaration order
LLMProvider == <<"gemini", "openai", "vertex-ai">>

GeminiModels == <<"gemini-2.5-pro", "gemini-2.5-flash", "gemini-1.5-pro", "gemini-1.5-flash">>
OpenAIModels == <<"gpt-4", "gpt-4-turbo", "gpt-4o", "gpt-4o-mini", "gpt-3.5-turbo">>

InSeq(x, seq) == \E i \in 1..Len(seq) : seq[i] = x

\* SUPPORTED_MODELS[provider]: undefined (Null) for a provider that is no key
SUPPORTED_MODELS(provider) ==
    IF provider = Some("gemini") THEN Some(GeminiModels)
    ELSE IF provider = Some("openai") THEN Some(OpenAIModels)
    ELSE IF provider = Some("vertex-ai") THEN Some(GeminiModels)
    ELSE Null

\* DEFAULT_EMBEDDING_MODELS[provider]
DEFAULT_EMBEDDING_MODELS(provider) ==
    IF provider = Some("gemini") THEN Some("gemini-embedding-001")
    ELSE IF provider = Some("openai") THEN Some("text-embedding-ada-002")
    ELSE IF provider = Some("vertex-ai") THEN Some("gemini-embedding-001")
    ELSE Null

\* !x on an optional string: undefined and '' are falsy
Falsy(x) == IsNull(x) \/ Val(x) = ""

isModelSupported(provider, model) ==
    IF IsNull(SUPPORTED_MODELS(provider)) THEN FALSE
    ELSE ~IsNull(model) /\ InSeq(Val(model), Val(SUPPORTED_MODELS(provider)))

getSupportedProviders == LLMProvider

\* `${x}` in a template literal
Interpolate(x) == IF IsNull(x) THEN "undefined" ELSE Val(x)

AdapterConfig(provider, apiKey, model, embeddingModel, baseUrl) ==
    [provider |-> provider, apiKey |-> apiKey, model |-> model,
     embeddingModel |-> embeddingModel, baseUrl |-> baseUrl]

Created(a, warned) == [kind |-> "adapter", adapter |-> Some(a), error |-> Null, warned |-> warned]
Thrown(e) == [kind |-> "error", adapter |-> Null, error |-> Some(e), warned |-> FALSE]

\* embeddingModel || DEFAULT_EMBEDDING_MODELS[provider]
effectiveEmbeddingModel(config) ==
    IF Falsy(config.embeddingModel) THEN DEFAULT_EMBEDDING_MODELS(config.provider)
    ELSE config.embeddingModel

createAdapter(config) ==
    IF Falsy(config.apiKey)
    THEN Thrown(PlainError(<<"API key is required for ", Interpolate(config.provider),
                             " provider">>))
    ELSE IF config.provider = Some("openai")
    THEN Created(OpenAIContentGenerator(Val(config.apiKey), config.model,
                                        effectiveEmbeddingModel(config), Null),
                 ~isModelSupported(config.provider, config.model))
    ELSE Thrown(PlainError(<<"Unsupported LLM provider: ", Interpolate(config.provider)>>))

\* Mutant of validateConfig: it returns at the first problem it finds.
validateConfigFirstOnly(config) ==
    LET errors ==
            IF Falsy(config.provider) THEN <<<<"Provider is required">>>>
            ELSE IF Falsy(config.apiKey) THEN <<<<"API key is required">>>>
            ELSE IF Falsy(config.model) THEN <<<<"Model is required">>>>
            ELSE IF ~InSeq(Val(config.provider), getSupportedProviders)
            THEN <<<<"Unsupported provider: ", Val(config.provider)>>>>
            ELSE <<>>
    IN  [valid |-> Len(errors) = 0, errors |-> errors]

validateConfig(config) ==
    \* every error string is the sequence of its fragments
    LET errors ==
            (IF Falsy(config.provider) THEN <<<<"Provider is required">>>> ELSE <<>>)
            \o (IF Falsy(config.apiKey) THEN <<<<"API key is required">>>> ELSE <<>>)
            \o (IF Falsy(config.model) THEN <<<<"Model is required">>>> ELSE <<>>)
            \o (IF ~Falsy(config.provider)
                   /\ ~InSeq(Val(config.provider), getSupportedProviders)
                THEN <<<<"Unsupported provider: ", Val(config.provider)>>>> ELSE <<>>)
    IN  [valid |-> Len(errors) = 0, errors |-> errors]

Providers ==
    {Null, Some(""), Some("gemini"), Some("openai"), Some("vertex-ai"), Some("anthropic")}
ApiKeys == {Null, Some(""), Some("sk-x")}
Models == {Null, Some(""), Some("gpt-4"), Some("gemini-2.5-pro"), Some("unknown-model")}
EmbeddingModels == {Null, Some(""), Some("text-embedding-3-small")}
BaseUrls == {Null, Some("https://proxy.example/v1")}

Configs ==
    {AdapterConfig(p, k, m, e, b) :
        p \in Providers, k \in ApiKeys, m \in Models, e \in EmbeddingModels, b \in BaseUrls}

CreateAdapter ==
    /\ op = "createAdapter"
    /\ pc = "start"
    /\ result' = Some(createAdapter(input))
    /\ adapter' = createAdapter(input).adapter
    /\ pc' = "done"
    /\ UNCHANGED <<op, input, vendor, vendorCalls, stream, prev>>

ValidateConfig ==
    /\ op = "validateConfig"
    /\ pc = "start"
    /\ result' = Some(validateConfig(input))
    /\ pc' = "done"
    /\ UNCHANGED <<adapter, op, input, vendor, vendorCalls, stream, prev>>

\* The caller validates the same configuration object once more; the
\* configuration as it is before that call and the first result are kept
\* for comparison.
ValidateConfigAgain ==
    /\ op = "validateConfig"
    /\ pc = "done"
    /\ IsNull(prev)
    /\ prev' = Some([config |-> input, result |-> Val(result)])
    /\ result' = Null
    /\ pc' = "start"
    /\ UNCHANGED <<adapter, op, input, vendor, vendorCalls, stream>>

\* The caller invokes an operation on the adapter the factory returned.
UseAdapter ==
    /\ op = "createAdapter"
    /\ pc = "done"
    /\ ~IsNull(adapter)
    /\ \/ op' = "generateContent" /\ input' = DefaultRequest /\ vendor' = DefaultChatOutcome
       \/ op' = "embedContent" /\ input' = DefaultEmbedRequest
            /\ vendor' = DefaultEmbeddingOutcome
    /\ pc' = "start"
    /\ result' = Null
    /\ UNCHANGED <<adapter, vendorCalls, stream, prev>>

----------------------------------------------------------------------------
(* Properties of request conversion and of generateContent *)

Done(o) == op = o /\ pc = "done"

\* The text of a part, of a parts sequence (left to right) and of a content
\* item, stated without the adapter's code.  A bare Part object used as a
\* content item has no parts sequence, and so no text.
TextOfPart(part) == IF part.kind = "data" THEN <<>> ELSE part.text

RECURSIVE TextOfParts(_, _)
TextOfParts(parts, n) ==
    IF n = 0 THEN <<>> ELSE TextOfParts(parts, n - 1) \o TextOfPart(parts[n])

TextOfItem(item) ==
    CASE item.kind = "string" -> item.text
      [] item.kind = "part" -> <<>>
      [] OTHER -> TextOfParts(item.parts, Len(item.parts))

SentMessages == vendorCalls[1].messages

HasSystemText(request) ==
    /\ ~IsNull(request.systemInstruction)
    /\ TextOfItem(Val(request.systemInstruction)) # <<>>

KeptItems(items) == {i \in 1..Len(items) : TextOfItem(items[i]) # <<>>}

\* C4: the native message list is one 'system' message first iff the system
\* instruction is present with non-empty text, then one message per content
\* item with non-empty text, in order, with role 'assistant' for 'model' and
\* 'user' for any other role, and the concatenated part texts as its text; a
\* single content item and the one-element array holding it give the same list.
C4_MessageList ==
    Done("generateContent") =>
        LET items == input.contents.items
            kept == KeptItems(items)
            off == IF HasSystemText(input) THEN 1 ELSE 0
            rank(i) == Cardinality({j \in kept : j <= i})
        IN  /\ Len(SentMessages) = off + Cardinality(kept)
            /\ HasSystemText(input) =>
                    SentMessages[1] =
                        Message("system", TextOfItem(Val(input.systemInstruction)))
            /\ \A i \in kept :
                    SentMessages[off + rank(i)] =
                        Message(IF items[i].role = Some("model") THEN "assistant" ELSE "user",
                                TextOfItem(items[i]))
            /\ input.contents.kind = "single" =>
                    convertToOpenAIMessages(
                        GenerateRequest(input.systemInstruction, ArrayContents(items)))
                        = SentMessages

\* A system message, a skipped empty content and a 'model' content of two parts.
C4_Witness ==
    /\ Done("generateContent")
    /\ input.contents.kind = "array"
    /\ Len(input.contents.items) = 2
    /\ input.contents.items[2].role = Some("model")
    /\ SentMessages = <<Message("system", <<"a", "b">>), Message("assistant", <<"b", "a">>)>>

NativeAnswered == vendor.kind = "response" /\ Len(vendor.choices) >= 1

\* The finish-reason table of the specification, with the empty string
\* treated as an absent reason.
FinishReasonTable(reason) ==
    CASE reason = Null -> Null
      [] reason = Some("") -> Null
      [] reason = Some("stop") -> Some("STOP")
      [] reason = Some("length") -> Some("MAX_TOKENS")
      [] reason = Some("content_filter") -> Some("SAFETY")
      [] OTHER -> Some("OTHER")

\* The table as the claim states it: the empty string is "any other string".
FinishReasonTableAsClaimed(reason) ==
    IF reason = Some("") THEN Some("OTHER") ELSE FinishReasonTable(reason)

\* C3 (amended): 'stop' maps to STOP, 'length' to MAX_TOKENS, 'content_filter'
\* to SAFETY, null, absent or the empty string to unset, and every other
\* string to OTHER; the neutral value depends on the native value alone.
C3_FinishReasonMapping ==
    (Done("generateContent") /\ NativeAnswered) =>
        Val(result).candidates[1].finishReason
            = FinishReasonTable(vendor.choices[1].finish_reason)

\* C3 (as claimed): every non-null string outside the table, the empty string
\* included, maps to OTHER.
C3_AsClaimed ==
    (Done("generateContent") /\ NativeAnswered) =>
        Val(result).candidates[1].finishReason
            = FinishReasonTableAsClaimed(vendor.choices[1].finish_reason)

\* The three table rows, the OTHER row and the unset row have each been mapped.
C3_Witness ==
    /\ Done("generateContent") /\ NativeAnswered
    /\ vendor.choices[1].finish_reason = Some("STOP")
    /\ Val(result).candidates[1].finishReason = Some("OTHER")

Mentions(message, fragment) == \E i \in 1..Len(message) : message[i] = fragment

VendorThrew == vendor.kind = "throw"

\* C6: in every operation a failure thrown by the vendor call is converted
\* the same way: a structured API error becomes an error carrying the vendor
\* message and the status code, an Error is passed through unchanged, any
\* other value is wrapped.
C6_UniformErrorConversion ==
    (pc = "done" /\ VendorThrew /\ vendorCalls # <<>>) =>
        LET e == Val(vendor.thrown)
            r == Val(result)
        IN  /\ r.kind = "error"
            /\ e.kind = "APIError" =>
                    /\ Mentions(Val(r.error).message, e.message[1])
                    /\ Mentions(Val(r.error).message, Val(e.status))
            /\ e.kind = "Error" => Val(r.error) = e
            /\ e.kind = "value" =>
                    /\ Val(r.error).kind = "Error"
                    /\ Mentions(Val(r.error).message, e.message[1])

NoVendor == [kind |-> "none"]

InitCount ==
    /\ adapter \in {Some(a) : a \in Adapters}
    /\ op = "countTokens"
    /\ input = Null
    /\ vendor = NoVendor
    /\ vendorCalls = <<>>
    /\ pc = "idle"
    /\ result = Null
    /\ stream = NoStream
    /\ prev = Null

NextCount == CountTokens \/ CountTokensReturn

SpecCount == InitCount /\ [][NextCount]_vars

\* C7 (as claimed): countTokens is non-decreasing in the total character
\* length of the part texts, however the text is divided into contents and
\* parts, and is 0 when every content has empty text.
C7_MonotoneInTotalLength ==
    (Done("countTokens") /\ prev # Null) =>
        /\ TotalChars(input) >= Val(prev).chars =>
                Val(result).totalTokens >= Val(prev).totalTokens
        /\ TotalChars(input) = 0 => Val(result).totalTokens = 0

\* C7 (amended): countTokens is non-decreasing in the length of the extracted
\* text, which is the total character length of the part texts plus one
\* separator for each non-empty text part, and is 0 when every content has
\* empty text.
C7_MonotoneInExtractedLength ==
    (Done("countTokens") /\ prev # Null) =>
        /\ TotalChars(input) + NonEmptyParts(input) >= Val(prev).chars + Val(prev).parts =>
                Val(result).totalTokens >= Val(prev).totalTokens
        /\ TotalChars(input) = 0 => Val(result).totalTokens = 0

\* A request of three characters in one part after one of three characters
\* in two parts: the same total length, fewer tokens.
C7_Witness ==
    /\ Done("countTokens") /\ prev # Null
    /\ TotalChars(input) = 3 /\ NonEmptyParts(input) = 1
    /\ Val(prev).chars = 3 /\ Val(prev).parts = 2
    /\ Val(result).totalTokens = 1 /\ Val(prev).totalTokens = 2

InitEmbed ==
    /\ adapter \in {Some(a) : a \in Adapters}
    /\ op = "embedContent"
    /\ \/ \E i \in ItemsOf(EmbedParts, EmbedRoles, EmbedBareItems, MaxParts) :
            input = EmbedRequest(SingleContents(i))
       \/ \E k \in 0..MaxContents : \E s \in ItemArrays(EmbedParts, EmbedRoles, EmbedBareItems, k) :
            input = EmbedRequest(ArrayContents(s))
    /\ vendor \in EmbeddingOutcomes
    /\ vendorCalls = <<>>
    /\ pc = "start"
    /\ result = Null
    /\ stream = NoStream
    /\ prev = Null

NextEmbed == EmbedContent

SpecEmbed == InitEmbed /\ [][NextEmbed]_vars

\* The texts of the parts of the structured contents, in scanning order.
RECURSIVE PartTextsInOrder(_, _)
PartTextsInOrder(items, n) ==
    IF n = 0 THEN <<>>
    ELSE PartTextsInOrder(items, n - 1)
         \o (IF items[n].kind = "content"
             THEN [j \in 1..Len(items[n].parts) |-> TextOfPart(items[n].parts[j])]
             ELSE <<>>)

FirstNonEmpty(texts) ==
    IF \E i \in 1..Len(texts) : texts[i] # <<>>
    THEN texts[CHOOSE i \in 1..Len(texts) :
                    /\ texts[i] # <<>>
                    /\ \A j \in 1..(i - 1) : texts[j] = <<>>]
    ELSE <<>>

\* C8: embedContent calls the vendor embedding call exactly once, with the
\* bound embedding model and the first non-empty part text in scanning order;
\* it returns one embedding whose values are those of the first native data
\* entry, or the empty vector when the native response has no data entry.
C8_EmbedFirstNonEmpty ==
    Done("embedContent") =>
        /\ Len(vendorCalls) = 1
        /\ vendorCalls[1].api = "embeddings.create"
        /\ vendorCalls[1].model = Val(adapter).embeddingModel
        /\ vendorCalls[1].input =
                FirstNonEmpty(PartTextsInOrder(input.contents.items, Len(input.contents.items)))
        /\ vendor.kind = "response" =>
                /\ Val(result).kind = "response"
                /\ Len(Val(result).embeddings) = 1
                /\ Val(result).embeddings[1].values =
                        (IF vendor.data = <<>> THEN <<>> ELSE vendor.data[1].embedding)

\* The first content has empty text, the second has text 'x'; the native
\* response has no data entry.
C8_Witness ==
    /\ Done("embedContent")
    /\ input.contents.kind = "array"
    /\ Len(input.contents.items) = 2
    /\ input.contents.items[1] = ContentObj(Some("user"), <<TextPart(<<>>)>>)
    /\ input.contents.items[2] = ContentObj(Some("user"), <<TextPart(<<"x">>)>>)
    /\ vendorCalls[1].input = <<"x">>
    /\ vendor.kind = "response" /\ vendor.data = <<>>
    /\ Val(result).embeddings = <<[values |-> <<>>]>>

InitStream ==
    /\ adapter = Some(createOpenAIContentGenerator("sk-x", Null, Null, Null))
    /\ op = "generateContentStream"
    /\ input = DefaultRequest
    /\ vendor \in StreamOutcomes
    /\ vendorCalls = <<>>
    /\ pc = "start"
    /\ result = Null
    /\ stream = NoStream
    /\ prev = Null

NextStream == GenerateContentStream \/ StreamNext \/ StreamReturn

SpecStream == InitStream /\ [][NextStream]_vars

\* The incremental text of a native chunk, '' when the chunk has no choices,
\* no delta or no content.
ChunkText(chunk) ==
    IF chunk.choices = Null \/ chunk.choices = Some(<<>>) THEN <<>>
    ELSE IF Val(chunk.choices)[1].delta = Null THEN <<>>
    ELSE IF Val(Val(chunk.choices)[1].delta).content = Null THEN <<>>
    ELSE Val(Val(Val(chunk.choices)[1].delta).content)

TextChunksUpTo(chunks, n) == {i \in 1..n : ChunkText(chunks[i]) # <<>>}

Streaming == op = "generateContentStream" /\ pc = "returned" /\ vendor.kind = "stream"

C1Chunks ==
    <<TextChunk(Some(<<"a">>), Null), TextChunk(Some(<<"b">>), Null),
      TextChunk(Some(<<>>), Some("stop"))>>

\* C1: the native stream 'a', 'b', '' with finish reasons null, null, 'stop'
\* yields exactly two responses, the second carrying finishReason STOP.
C1_StopOnSecondResponse ==
    (Streaming /\ stream.state = "done" /\ vendor.chunks = C1Chunks) =>
        /\ Len(stream.yielded) = 2
        /\ stream.yielded[2].candidates[1].finishReason = Some("STOP")

\* C2: the responses yielded are, in native order, one per chunk with
\* non-empty incremental text, each with a single candidate (index 0, role
\* 'model') holding that text and no usageMetadata; a chunk without text
\* yields nothing, and the sequence ends after the last native chunk.
C2_OneResponsePerTextChunk ==
    Streaming =>
        LET chunks == vendor.chunks
            texts == TextChunksUpTo(chunks, stream.pulled)
            rank(i) == Cardinality({j \in texts : j <= i})
        IN  /\ Len(stream.yielded) = Cardinality(texts)
            /\ \A i \in texts :
                LET r == stream.yielded[rank(i)]
                IN  /\ r.kind = "response"
                    /\ Len(r.candidates) = 1
                    /\ r.candidates[1].index = 0
                    /\ r.candidates[1].content.role = "model"
                    /\ r.candidates[1].content.parts = <<[text |-> ChunkText(chunks[i])]>>
                    /\ r.usageMetadata = Null
            /\ stream.state = "done" => (stream.pulled = Len(chunks) /\ vendor.thrown = Null)

\* Three chunks, the middle one without text, consumed to the end.
C2_Witness ==
    /\ Streaming
    /\ stream.state = "done"
    /\ Len(vendor.chunks) = 3
    /\ ChunkText(vendor.chunks[1]) = <<"b">>
    /\ vendor.chunks[2] = Chunk(Null)
    /\ ChunkText(vendor.chunks[3]) = <<"a">>
    /\ Len(stream.yielded) = 2

\* The generator exists: generateContentStream has returned it.
HasGenerator == op = "generateContentStream" /\ pc = "returned"

\* No vendor call is made before the first request; a suspended generator
\* has delivered one element per request and has pulled up to the chunk of
\* the last element and no further; a completed generator holds no open
\* native iterator.
LazyAndReleased ==
    /\ (op = "generateContentStream" /\ pc = "start") => vendorCalls = <<>>
    /\ HasGenerator =>
        /\ stream.requests = 0 =>
                (vendorCalls = <<>> /\ stream.pulled = 0 /\ stream.native = "none")
        /\ stream.state = "suspended" =>
                /\ stream.native = "open"
                /\ stream.settled = "value"
                /\ Len(stream.yielded) = stream.requests
                /\ stream.pulled \in TextChunksUpTo(vendor.chunks, stream.pulled)
                /\ Cardinality(TextChunksUpTo(vendor.chunks, stream.pulled))
                        = Len(stream.yielded)
        /\ stream.state \in Ended =>
                /\ stream.native \in {"none", "finished", "returned"}
                /\ stream.native = "none" => stream.pulled = 0
                /\ stream.state = "closed" => stream.native = "returned" \/ vendorCalls = <<>>

\* A step of the generator pulls native chunks or calls the vendor only as
\* part of a consumer request, and after the generator has completed it
\* pulls, calls and yields nothing more.
PullsOnlyOnRequest ==
    /\ (op = "generateContentStream" /\ pc = "start") => vendorCalls' = vendorCalls
    /\ (HasGenerator /\ pc' = "returned") =>
        /\ (stream'.pulled # stream.pulled \/ vendorCalls' # vendorCalls) =>
                stream'.requests = stream.requests + 1
        /\ stream.state \in Ended =>
                /\ stream'.pulled = stream.pulled
                /\ stream'.native = stream.native
                /\ stream'.yielded = stream.yielded
                /\ stream'.state = stream.state
                /\ vendorCalls' = vendorCalls

\* C12: calling generateContentStream makes no vendor call until the
\* consumer requests the first element; after that the adapter pulls native
\* chunks only in response to a consumer request; and once the consumer has
\* closed the sequence part-way, or an error has terminated it, the native
\* stream iterator is released and no further native chunk is ever pulled.
C12_LazyAndReleased == []LazyAndReleased /\ [][PullsOnlyOnRequest]_vars

\* The consumer took one element of a stream that has a later text chunk,
\* closed the sequence and then asked once more.
C12_Witness ==
    /\ HasGenerator
    /\ stream.state = "closed"
    /\ stream.native = "returned"
    /\ Len(stream.yielded) = 1
    /\ stream.requests = 2
    /\ stream.pulled < Len(vendor.chunks)
    /\ ChunkText(vendor.chunks[Len(vendor.chunks)]) # <<>>

InitFailure == InitGenerate \/ InitStream

NextFailure ==
    \/ GenerateContent
    \/ GenerateContentStream \/ StreamNext \/ StreamReturn \/ GenerateContentStreamAgain

SpecFailure == InitFailure /\ [][NextFailure]_vars

\* A wrapped error: a plain Error without status whose message is one
\* prefix followed by the message of what was caught.
IsWrapped(e, caught) ==
    /\ e.kind = "Error"
    /\ e.status = Null
    /\ Len(e.message) = Len(caught.message) + 1
    /\ Tail(e.message) = caught.message

\* The text of a yielded response.
YieldedText(r) == r.candidates[1].content.parts[1].text

\* The texts of the text chunks among the first n chunks, in order.
RECURSIVE TextsUpTo(_, _)
TextsUpTo(chunks, n) ==
    IF n = 0 THEN <<>>
    ELSE IF ChunkText(chunks[n]) = <<>> THEN TextsUpTo(chunks, n - 1)
    ELSE Append(TextsUpTo(chunks, n - 1), ChunkText(chunks[n]))

\* generateContent has ended in one complete response or in one wrapped
\* error, after a single vendor call.
OneOutcome ==
    LET r == Val(result)
    IN  /\ Len(vendorCalls) = 1
        /\ r.kind \in {"response", "error"}
        /\ r.kind = "response" =>
                /\ r.error = Null
                /\ vendor.kind = "response"
                /\ Len(r.candidates) = 1
                /\ r.candidates[1].content.parts
                        = <<[text |-> OrEmpty(vendor.choices[1].message.content)]>>
        /\ r.kind = "error" =>
                /\ r.candidates = <<>> /\ r.usageMetadata = Null
                /\ (vendor.kind = "throw" \/ vendor.choices = <<>>)
                /\ vendor.kind = "throw" => IsWrapped(Val(r.error), Val(vendor.thrown))

\* The generator of the current call: one vendor call at most, the elements
\* delivered are those of this call's native stream from its first chunk on,
\* and a native failure ends it with one wrapped error, shaped like the one
\* generateContent throws for the same failure, and nothing after it.
FailsOnce ==
    /\ Len(vendorCalls) <= 1
    /\ stream.state \in {"suspended", "done", "failed"} => Len(vendorCalls) = 1
    /\ Len(stream.yielded) = Len(TextsUpTo(vendor.chunks, stream.pulled))
    /\ \A i \in 1..Len(stream.yielded) :
            YieldedText(stream.yielded[i]) = TextsUpTo(vendor.chunks, stream.pulled)[i]
    /\ (stream.state = "failed") = (~IsNull(stream.error))
    /\ stream.state = "done" =>
            (IsNull(vendor.thrown) /\ stream.pulled = Len(vendor.chunks))
    /\ stream.state = "failed" =>
            /\ ~IsNull(vendor.thrown)
            /\ stream.pulled = Len(vendor.chunks)
            /\ IsWrapped(Val(stream.error), Val(vendor.thrown))
            /\ Val(stream.error).kind = GenerateContentFailure(Val(vendor.thrown)).kind
            /\ Val(stream.error).status = GenerateContentFailure(Val(vendor.thrown)).status
            /\ Tail(Val(stream.error).message)
                    = Tail(GenerateContentFailure(Val(vendor.thrown)).message)
            /\ stream.requests >= Len(stream.yielded) + 1
            /\ (stream.settled = "error") = (stream.requests = Len(stream.yielded) + 1)
            /\ stream.settled \in {"error", "done"}

\* C13: generateContent and generateContentStream call the vendor at most
\* once per invocation; generateContent ends in exactly one of a complete
\* response or a wrapped error; a native stream that raises after k chunks
\* makes the sequence fail there with a single wrapped error of the shape of
\* the non-streaming failure and yield nothing afterwards; and a fresh call
\* starts from the first chunk of its own stream, with nothing of the failed
\* one replayed.
C13_NoRetryNoPartial ==
    /\ op = "generateContent" => Len(vendorCalls) <= 1
    /\ Done("generateContent") => OneOutcome
    /\ (op = "generateContentStream" /\ pc = "start") => vendorCalls = <<>>
    /\ HasGenerator => FailsOnce

\* A stream failed after delivering 'a'; the fresh call delivered 'b' and
\* 'a' and ended.
C13_Witness ==
    /\ HasGenerator
    /\ ~IsNull(prev)
    /\ Len(Val(prev).yielded) = 1
    /\ YieldedText(Val(prev).yielded[1]) = <<"a">>
    /\ stream.state = "done"
    /\ Len(stream.yielded) = 2
    /\ YieldedText(stream.yielded[1]) = <<"b">>
    /\ Len(vendorCalls) = 1

InitFactory ==
    /\ adapter = Null
    /\ op \in {"createAdapter", "validateConfig"}
    /\ input \in Configs
    /\ vendor = NoVendor
    /\ vendorCalls = <<>>
    /\ pc = "start"
    /\ result = Null
    /\ stream = NoStream
    /\ prev = Null

NextFactory ==
    \/ CreateAdapter \/ ValidateConfig \/ ValidateConfigAgain \/ UseAdapter
    \/ GenerateContent \/ EmbedContent

SpecFactory == InitFactory /\ [][NextFactory]_vars

InRegistry(provider) == ~IsNull(provider) /\ InSeq(Val(provider), LLMProvider)

IsConfigurationError(e) == e.message[1] = "API key is required for "
IsUnsupportedProviderError(e) == e.message[1] = "Unsupported LLM provider: "

\* C9: createAdapter fails with the configuration error for an empty apiKey,
\* whatever the provider; with an apiKey it returns a content generator for
\* every provider of the registry (the translation adapter for OpenAI, the
\* native client for Gemini and Vertex AI) and fails with the
\* unsupported-provider error for any other provider; every configuration
\* that validateConfig reports valid is accepted.
C9_FactoryOutcome ==
    Done("createAdapter") =>
        LET r == Val(result)
        IN  /\ Falsy(input.apiKey) =>
                    (r.kind = "error" /\ IsConfigurationError(Val(r.error)))
            /\ (~Falsy(input.apiKey) /\ InRegistry(input.provider)) =>
                    /\ r.kind # "error"
                    /\ input.provider = Some("openai") => r.kind = "adapter"
                    /\ input.provider # Some("openai") => r.kind = "native"
            /\ (~Falsy(input.apiKey) /\ ~InRegistry(input.provider)) =>
                    (r.kind = "error" /\ IsUnsupportedProviderError(Val(r.error)))
            /\ validateConfig(input).valid => r.kind # "error"

\* The embedding model the claim names: the configured one when given, the
\* registry's default for the provider otherwise.
ResolvedEmbeddingModel(config) ==
    IF Falsy(config.embeddingModel) THEN Val(DEFAULT_EMBEDDING_MODELS(config.provider))
    ELSE Val(config.embeddingModel)

\* C10: for the OpenAI provider with an apiKey, createAdapter constructs an
\* adapter bound to (apiKey, model, E, baseUrl), also for a model outside the
\* registry; every later chat call uses the bound model and every embedding
\* call uses E.
C10_BoundAdapter ==
    /\ (Done("createAdapter") /\ input.provider = Some("openai")
            /\ ~Falsy(input.apiKey) /\ ~IsNull(input.model)) =>
            /\ Val(result).kind = "adapter"
            /\ adapter = Some([apiKey |-> Val(input.apiKey),
                               model |-> Val(input.model),
                               embeddingModel |-> ResolvedEmbeddingModel(input),
                               baseURL |-> input.baseUrl])
    /\ Done("generateContent") =>
            (Len(vendorCalls) = 1 /\ vendorCalls[1].model = Val(adapter).model)
    /\ Done("embedContent") =>
            (Len(vendorCalls) = 1 /\ vendorCalls[1].model = Val(adapter).embeddingModel)

Missing(x) == IsNull(x)
MissingOrEmpty(x) == IsNull(x) \/ x = Some("")

\* The four problems in the order validateConfig reports them, each with
\* the condition under which it applies; `noProvider` says when the provider
\* counts as not given.
Problems(config, noProvider) ==
    <<[error |-> <<"Provider is required">>, applies |-> noProvider],
      [error |-> <<"API key is required">>, applies |-> MissingOrEmpty(config.apiKey)],
      [error |-> <<"Model is required">>, applies |-> MissingOrEmpty(config.model)],
      [error |-> <<"Unsupported provider: ", Interpolate(config.provider)>>,
       applies |-> ~noProvider /\ ~InRegistry(config.provider)]>>

Applies(problem) == problem.applies

ExpectedErrors(config, noProvider) ==
    LET kept == SelectSeq(Problems(config, noProvider), Applies)
    IN  [i \in 1..Len(kept) |-> kept[i].error]

\* The result has the expected errors, valid says whether there are none,
\* and a second validation of the same configuration left it as it was and
\* gave the same result.
ValidatedAs(expected) ==
    /\ Val(result).errors = expected
    /\ Val(result).valid = (Len(Val(result).errors) = 0)
    /\ ~IsNull(prev) => (input = Val(prev).config /\ Val(result) = Val(prev).result)

\* C11 as stated: validateConfig returns, in this order, 'Provider is
\* required' if the provider is missing, 'API key is required' if the apiKey
\* is missing or empty, 'Model is required' if the model is missing or empty,
\* and 'Unsupported provider: {provider}' if the provider is present but not
\* in the registry; valid is true exactly when there is no error, and the
\* same configuration, which is not modified, always gives the same result.
C11_AsClaimed ==
    Done("validateConfig") => ValidatedAs(ExpectedErrors(input, Missing(input.provider)))

\* C11, amended: the same, where an empty provider counts as missing: it
\* gives 'Provider is required' and no 'Unsupported provider' error.
C11_ValidateAccumulates ==
    Done("validateConfig") =>
        ValidatedAs(ExpectedErrors(input, MissingOrEmpty(input.provider)))

\* No provider, an empty apiKey and an empty model, validated twice: three
\* errors.
C11_Witness ==
    /\ Done("validateConfig")
    /\ ~IsNull(prev)
    /\ input.provider = Null /\ input.apiKey = Some("") /\ input.model = Some("")
    /\ Len(Val(result).errors) = 3
    /\ ~Val(result).valid

----------------------------------------------------------------------------
(* The whole program: any one invocation of the factory or of the adapter *)

Init ==
    InitFactory \/ InitConvert \/ InitGenerate \/ InitStream \/ InitCount \/ InitEmbed

Next ==
    \/ CreateAdapter \/ ValidateConfig \/ ValidateConfigAgain \/ UseAdapter
    \/ GenerateContent
    \/ GenerateContentStream \/ StreamNext \/ StreamReturn \/ GenerateContentStreamAgain
    \/ CountTokens \/ CountTokensReturn
    \/ EmbedContent

Spec == Init /\ [][Next]_vars

====
